---- MODULE Spec2Model ----
(***************************************************************************)
(* Device session and log journal of the Neuro Glove client.               *)
(*                                                                         *)
(*   src/services.ts                the log service (saveLog,              *)
(*                                  loadLogsForDate) and the serial device *)
(*                                  connection service (connectSerial,     *)
(*                                  sendMessage, disconnect)               *)
(*   src/components/CenterPanel.tsx the handlers that call the services    *)
(*                                  (handleConnect, handleSend, the        *)
(*                                  Disconnect button) and the effects     *)
(*                                  that save and load the displayed log   *)
(*   src/unnamed/part_000           appendLog, the log callback            *)
(*                                                                         *)
(* The log callback the services are given with init() is appendLog; the   *)
(* displayed list it appends to is the list whose effects save it          *)
(* (useEffect on [logs]) and reload it (loadHistory).  The updates of one  *)
(* handler or continuation are rendered together, so the save effect runs  *)
(* once after it, on the list as the handler left it.  localStorage calls  *)
(* are taken to succeed.                                                   *)
(*                                                                         *)
(* The exported services may be called in any connection state: the        *)
(* buttons that call them are shown or hidden from a connection prop that  *)
(* the parent component updates after the fact.  Each connect request      *)
(* picks a port of its own; a request for a port that is already open is   *)
(* a request whose open() rejects.                                         *)
(*                                                                         *)
(* A text is a sequence of fragments.  Text that travels over the serial  *)
(* line or is typed into the command box is a sequence of one-character   *)
(* fragments; a diagnostic the code builds from a literal is one fragment *)
(* per literal, so `Sent: ${text}` is <<"Sent: ">> \o text.               *)
(***************************************************************************)
EXTENDS Integers, Sequences, FiniteSets, TLC

\* ------------------------------------------------------------------ bounds
MaxConn == 2       \* connect requests made in one run
MaxLogs == 5       \* entries in the displayed log list
MaxRecv == 3       \* characters delivered to one read loop (Spec)
MaxText == 5       \* characters delivered to the read loop (SpecFramer)
MaxChunk == 2      \* characters in one chunk (SpecFramer)
MaxDay == 2        \* calendar days
MaxJournal == 3    \* entries stored in the journal, all days together
MaxXlat == 3       \* translateText calls made in one run

Sessions == 1..MaxConn
Days == 1..MaxDay

\* --------------------------------------------------------------- text
CR == "\r"
LF == "\n"
Chars == {"a", " ", CR, LF}

RECURSIVE SeqsUpTo(_, _)
SeqsUpTo(S, n) ==
  IF n = 0 THEN {<<>>}
  ELSE LET shorter == SeqsUpTo(S, n - 1)
       IN  shorter \cup {Append(t, c) : t \in shorter, c \in S}

Last(s) == s[Len(s)]
Front(s) == SubSeq(s, 1, Len(s) - 1)

\* String.prototype.trim: strips leading and trailing white space
IsWhite(c) == c \in {" ", CR, LF, "\t"}

RECURSIVE TrimStart(_)
TrimStart(t) ==
  IF t # <<>> /\ IsWhite(Head(t)) THEN TrimStart(Tail(t)) ELSE t

RECURSIVE TrimEnd(_)
TrimEnd(t) ==
  IF t # <<>> /\ IsWhite(Last(t)) THEN TrimEnd(Front(t)) ELSE t

trim(t) == TrimEnd(TrimStart(t))

\* buffer.split(/\r?\n/): cut at every "\n", and drop one "\r" standing right
\* before it; a text with no "\n" is one segment
HasLF(t) == \E i \in 1..Len(t) : t[i] = LF

FirstLF(t) == CHOOSE i \in 1..Len(t) : t[i] = LF /\ \A j \in 1..(i - 1) : t[j] # LF

RECURSIVE split(_)
split(t) ==
  IF ~HasLF(t) THEN <<t>>
  ELSE LET i == FirstLF(t)
           seg == IF i > 1 /\ t[i - 1] = CR THEN SubSeq(t, 1, i - 2)
                  ELSE SubSeq(t, 1, i - 1)
       IN  <<seg>> \o split(SubSeq(t, i + 1, Len(t)))

\* for (const line of parts) { const clean = line.trim(); if (clean) logFn(clean, 'in') }
RECURSIVE CleanLines(_)
CleanLines(parts) ==
  IF parts = <<>> THEN <<>>
  ELSE LET clean == trim(Head(parts))
       IN  (IF clean # <<>> THEN <<clean>> ELSE <<>>) \o CleanLines(Tail(parts))

\* A read loop that drops the pending tail between chunks.
FrameNoTail(buf, value) ==
  IF value = <<>> THEN [buffer |-> buf, out |-> <<>>]
  ELSE LET parts == split(value)
       IN  [buffer |-> <<>>, out |-> CleanLines(Front(parts))]

\* A read loop that takes the last segment for a complete line.
FrameEmitsTail(buf, value) ==
  IF value = <<>> THEN [buffer |-> buf, out |-> <<>>]
  ELSE LET parts == split(buf \o value)
       IN  [buffer |-> Last(parts), out |-> CleanLines(parts)]

\* One pass of the read loop's body over a chunk: the new pending tail and the
\* messages handed to the log callback, in order.
Frame(buf, value) ==
  IF value = <<>> THEN [buffer |-> buf, out |-> <<>>]
  ELSE LET parts == split(buf \o value)
       IN  [buffer |-> Last(parts), out |-> CleanLines(Front(parts))]

\* ----------------------------------------------------------- log entries
\* A timestamp is an instant, of which the model keeps the UTC day, held either
\* as a Date object or as its ISO string (what JSON.stringify stores and what
\* part_000's appendLog builds with new Date().toISOString()).
DateAt(d) == [repr |-> "Date", day |-> d]
IsoAt(d) == [repr |-> "String", day |-> d]

Entry(t, dir, ts) == [text |-> t, direction |-> dir, timestamp |-> ts]

\* getLogKey: date.toISOString().slice(0, 10).  Only a Date has toISOString;
\* on a string the call is a TypeError.
getLogKeyThrows(ts) == ts.repr # "Date"
getLogKey(ts) == ts.day

\* JSON.stringify of an entry: a Date is written as its ISO string
Stored(log) == Entry(log.text, log.direction, IsoAt(log.timestamp.day))

\* ------------------------------------------------------------ log service
\* The store is localStorage, one key per day holding the JSON array of that
\* day's entries (an absent key reads as the empty array), together with the
\* record of the saveLog calls that were made with a Date timestamp.

\* A saveLog that replaces the stored array by the new entry alone.
saveLogOverwrite(st, log) ==
  IF getLogKeyThrows(log.timestamp) THEN st
  ELSE LET key == getLogKey(log.timestamp)
       IN  [journal |-> [st.journal EXCEPT ![key] = <<Stored(log)>>],
            calls |-> Append(st.calls, log)]

\* A saveLog that puts the new entry in front of the stored ones.
saveLogPrepend(st, log) ==
  IF getLogKeyThrows(log.timestamp) THEN st
  ELSE LET key == getLogKey(log.timestamp)
           existing == st.journal[key]
       IN  [journal |-> [st.journal EXCEPT ![key] = <<Stored(log)>> \o existing],
            calls |-> Append(st.calls, log)]

saveLog(st, log) ==
  IF getLogKeyThrows(log.timestamp) THEN st      \* caught: console.error only
  ELSE LET key == getLogKey(log.timestamp)
           existing == st.journal[key]
       IN  [journal |-> [st.journal EXCEPT ![key] = Append(existing, Stored(log))],
            calls |-> Append(st.calls, log)]

\* loadLogsForDate(date): the parsed array of the day's key, each timestamp
\* turned back into a Date
loadLogsForDate(j, d) ==
  [i \in 1..Len(j[d]) |->
     Entry(j[d][i].text, j[d][i].direction, DateAt(j[d][i].timestamp.day))]

\* ---------------------------------------------------------- displayed log
\* useEffect(() => { logs.forEach((log) => services.saveLog(log)) }, [logs])
RECURSIVE SaveEach(_, _)
SaveEach(st, ls) ==
  IF ls = <<>> THEN st ELSE SaveEach(saveLog(st, Head(ls)), Tail(ls))

\* appendLog(message, direction): a new entry stamped new Date().toISOString(),
\* added to the displayed list, then handed to saveLog
appendLog(ui, msg, now) ==
  LET newLog == Entry(msg.text, msg.direction, IsoAt(now))
  IN  [logs |-> Append(ui.logs, newLog), st |-> saveLog(ui.st, newLog)]

RECURSIVE AppendAll(_, _, _)
AppendAll(ui, msgs, now) ==
  IF msgs = <<>> THEN ui
  ELSE AppendAll(appendLog(ui, Head(msgs), now), Tail(msgs), now)

Msg(t, dir) == [text |-> t, direction |-> dir]

JournalSize(j) == LET RECURSIVE Sum(_)
                      Sum(d) == IF d = 0 THEN 0 ELSE Len(j[d]) + Sum(d - 1)
                  IN  Sum(MaxDay)

VARIABLES
  hasSerial,      \* 'serial' in navigator
  port,           \* the module's port: 0 is null, else the session whose port it is
  reader,         \* the module's reader: 0 is null, else the session whose reader it is
  keepReading,    \* the module's read-loop flag
  conn,           \* the connection type last passed to the connection-change callback
  pc,             \* where each connectSerial call stands
  buffer,         \* each read loop's pending tail
  chan,           \* each selected port: "closed" or "open"
  stream,         \* each session's decoded stream
  readQ,          \* per reader, the read loops whose read() is pending, oldest first
  inflight,       \* per port, the text of the write in flight (at most one: the writer lock)
  wire,           \* per port, the payloads written, in order
  recv,           \* per read loop, the chunks delivered to it, concatenated
  emits,          \* per read loop, the messages it handed to the log callback
  logs,           \* the displayed log list
  journal,        \* localStorage: day -> stored entries
  calls,          \* the entries saveLog was called with (Date timestamps), in call order
  isHistoryView,  \* the View History checkbox
  historyDate,    \* the date picked for the history view
  today,          \* the day new Date() falls on
  cmd,            \* the command box
  last,           \* the handler or continuation that ran last, and how it ended
  translationCache, \* the translation Map: cache key -> translation
  apiKey,         \* process.env.API_KEY: "unread" until getTranslationAi reads it
  translating,    \* the translateText calls waiting for generateContent
  returned,       \* the translateText calls that returned a string, in return order
  xlatCalls       \* how many translateText calls were made

vars == <<hasSerial, port, reader, keepReading, conn, pc, buffer, chan, stream,
          readQ, inflight, wire, recv, emits, logs, journal, calls,
          isHistoryView, historyDate, today, cmd, last,
          translationCache, apiKey, translating, returned, xlatCalls>>

svcVars == <<port, reader, keepReading, conn, pc, buffer, chan, stream, readQ,
             inflight, wire, recv, emits>>
viewVars == <<isHistoryView, historyDate, today>>
uiVars == <<logs, journal, calls>>
xlatVars == <<translationCache, apiKey, translating, returned, xlatCalls>>

Init ==
  /\ hasSerial \in BOOLEAN
  /\ port = 0
  /\ reader = 0
  /\ keepReading = FALSE
  /\ conn = "Disconnected"
  /\ pc = [s \in Sessions |-> "idle"]
  /\ buffer = [s \in Sessions |-> <<>>]
  /\ chan = [s \in Sessions |-> "closed"]
  /\ stream = [s \in Sessions |-> "none"]
  /\ readQ = [s \in Sessions |-> <<>>]
  /\ inflight = [s \in Sessions |-> <<>>]
  /\ wire = [s \in Sessions |-> <<>>]
  /\ recv = [s \in Sessions |-> <<>>]
  /\ emits = [s \in Sessions |-> <<>>]
  /\ logs = <<>>
  /\ journal = [d \in Days |-> <<>>]
  /\ calls = <<>>
  /\ isHistoryView = FALSE
  /\ historyDate = 1
  /\ today = 1
  /\ cmd = <<>>
  /\ last = [op |-> "none", res |-> "ok"]
  /\ translationCache = [k \in {} |-> <<>>]
  /\ apiKey = "unread"
  /\ translating = <<>>
  /\ returned = <<>>
  /\ xlatCalls = 0

\* The log callback run on `msgs` in order, then the effect on [logs] that saves
\* every displayed entry.  Enabled while the displayed list and the journal
\* stay within their bounds.
LogFn(msgs) ==
  LET ui == AppendAll([logs |-> logs, st |-> [journal |-> journal, calls |-> calls]],
                      msgs, today)
      st == SaveEach(ui.st, ui.logs)
  IN  /\ Len(logs) + Len(msgs) <= MaxLogs
      /\ JournalSize(st.journal) <= MaxJournal
      /\ logs' = ui.logs
      /\ journal' = st.journal
      /\ calls' = st.calls

Did(op, res) == last' = [op |-> op, res |-> res]

\* ------------------------------------------------------ queue helpers
Without(q, s) == SelectSeq(q, LAMBDA x : x # s)

\* the reader on which loop s has a read pending (0: none)
AwaitedBy(s) ==
  IF \E r \in Sessions : \E i \in 1..Len(readQ[r]) : readQ[r][i] = s
  THEN CHOOSE r \in Sessions : \E i \in 1..Len(readQ[r]) : readQ[r][i] = s
  ELSE 0

\* read() resolves in the order the reads were issued
NextToResolve(s) == AwaitedBy(s) # 0 /\ Head(readQ[AwaitedBy(s)]) = s

Dequeued(s) == [r \in Sessions |-> Without(readQ[r], s)]

\* loop s leaves its pending read and issues reader.read() on the module's reader
Requeued(s) == [r \in Sessions |->
                  IF r = reader THEN Append(Without(readQ[r], s), s)
                  ELSE Without(readQ[r], s)]

TeardownFaults == [cancel : BOOLEAN, close : BOOLEAN]

DisconnectedMsg == Msg(<<"Disconnected">>, "in")

\* ----------------------------------------------------------- disconnect
\* A teardown that gives up at the first fault.
disconnectStopsAtFault(f, strm) ==
  /\ keepReading' = FALSE
  /\ stream' = IF reader # 0 /\ strm[reader] = "active"
               THEN [strm EXCEPT ![reader] = "cancelled"] ELSE strm
  /\ chan' = IF port # 0 /\ ~f.close /\ ~f.cancel
             THEN [chan EXCEPT ![port] = "closed"] ELSE chan
  /\ port' = IF f.close \/ f.cancel THEN port ELSE 0
  /\ reader' = IF f.close \/ f.cancel THEN reader ELSE 0
  /\ conn' = IF f.close \/ f.cancel THEN conn ELSE "Disconnected"

\* A teardown that leaves the reader alone.
disconnectNoCancel(f, strm) ==
  /\ keepReading' = FALSE
  /\ stream' = strm
  /\ chan' = IF port # 0 /\ ~f.close
             THEN [chan EXCEPT ![port] = "closed"] ELSE chan
  /\ port' = 0
  /\ reader' = 0
  /\ conn' = "Disconnected"

\* A teardown that reports Disconnected and keeps the module's port.
disconnectKeepsPort(f, strm) ==
  /\ keepReading' = FALSE
  /\ stream' = IF reader # 0 /\ strm[reader] = "active"
               THEN [strm EXCEPT ![reader] = "cancelled"] ELSE strm
  /\ chan' = IF port # 0 /\ ~f.close
             THEN [chan EXCEPT ![port] = "closed"] ELSE chan
  /\ port' = port
  /\ reader' = 0
  /\ conn' = "Disconnected"

\* disconnect(), but for its logFn('Disconnected', 'in'), which the calling
\* action hands to LogFn with its other messages.  f says which of
\* reader.cancel() and port.close() reject; both rejections are swallowed by
\* .catch(() => {}).  A cancelled stream resolves its pending reads with done
\* whether or not cancel() rejects; a port whose close() rejects stays open.
\* strm is the streams' state when disconnect() is entered.
disconnect(f, strm) ==
  /\ keepReading' = FALSE
  /\ stream' = IF reader # 0 /\ strm[reader] = "active"
               THEN [strm EXCEPT ![reader] = "cancelled"] ELSE strm
  /\ chan' = IF port # 0 /\ ~f.close
             THEN [chan EXCEPT ![port] = "closed"] ELSE chan
  /\ port' = 0
  /\ reader' = 0
  /\ conn' = "Disconnected"

\* reader.cancel().catch(() => {}) and port.close().catch(() => {}): a rejection
\* of either promise is handled, and neither call throws synchronously
TeardownThrows(f) == FALSE

\* the Disconnect button: onClick={services.disconnect}
DisconnectClick ==
  /\ \E f \in TeardownFaults :
       /\ disconnect(f, stream)
       /\ Did("disconnect", IF TeardownThrows(f) THEN "thrown" ELSE "ok")
  /\ LogFn(<<DisconnectedMsg>>)
  /\ UNCHANGED <<hasSerial, xlatVars, pc, buffer, readQ, inflight, wire, recv, emits,
                 viewVars, cmd>>

\* -------------------------------------------------------- connectSerial
\* handleConnect('serial') up to connectSerial's first await.  Without Web
\* Serial connectSerial throws before its try block, and handleConnect's catch
\* logs the failure.
HandleConnect(s) ==
  /\ pc[s] = "idle"
  /\ IF s = 1 THEN TRUE ELSE pc[s - 1] # "idle"
  /\ IF hasSerial
     THEN /\ pc' = [pc EXCEPT ![s] = "requestPort"]
          /\ Did("handleConnect", "pending")
          /\ UNCHANGED uiVars
     ELSE /\ pc' = [pc EXCEPT ![s] = "failed"]
          /\ LogFn(<<Msg(<<"Connection failed: ", "Web Serial not supported.">>, "in")>>)
          /\ Did("handleConnect", "caught")
  /\ UNCHANGED <<hasSerial, xlatVars, port, reader, keepReading, conn, buffer, chan, stream,
                 readQ, inflight, wire, recv, emits, viewVars, cmd>>

\* navigator.serial.requestPort() resolves: the user picked a port
RequestPortResolve(s) ==
  /\ pc[s] = "requestPort"
  /\ pc' = [pc EXCEPT ![s] = "open"]
  /\ Did("requestPort", "ok")
  /\ UNCHANGED <<hasSerial, xlatVars, port, reader, keepReading, conn, buffer, chan, stream,
                 readQ, inflight, wire, recv, emits, uiVars, viewVars, cmd>>

\* A catch block that reports the failure and tears nothing down.
CatchNoTeardown(s, err, strm) ==
  /\ stream' = strm
  /\ UNCHANGED <<keepReading, chan, port, reader, conn>>
  /\ LogFn(<<Msg(<<"Serial connection error: ", err>>, "in"),
             DisconnectedMsg,
             Msg(<<"Connection failed: ", err>>, "in")>>)
  /\ pc' = [pc EXCEPT ![s] = "failed"]
  /\ readQ' = Dequeued(s)
  /\ Did("connectSerial", "caught")

\* connectSerial's catch block: logFn(error), disconnect(), throw; then
\* handleConnect's catch: appendLog(`Connection failed: ${err}`, 'in')
Catch(s, err, strm) ==
  /\ \E f \in TeardownFaults : disconnect(f, strm)
  /\ LogFn(<<Msg(<<"Serial connection error: ", err>>, "in"),
             DisconnectedMsg,
             Msg(<<"Connection failed: ", err>>, "in")>>)
  /\ pc' = [pc EXCEPT ![s] = "failed"]
  /\ readQ' = Dequeued(s)
  /\ Did("connectSerial", "caught")

\* requestPort() rejects: the user dismissed the chooser
RequestPortReject(s) ==
  /\ pc[s] = "requestPort"
  /\ Catch(s, "NotFoundError", stream)
  /\ UNCHANGED <<hasSerial, xlatVars, buffer, inflight, wire, recv, emits, viewVars, cmd>>

\* selectedPort.open() rejects
OpenReject(s) ==
  /\ pc[s] = "open"
  /\ Catch(s, "NetworkError", stream)
  /\ UNCHANGED <<hasSerial, xlatVars, buffer, inflight, wire, recv, emits, viewVars, cmd>>

\* selectedPort.open() resolves: lines 183-195, up to the loop's first read()
OpenResolve(s) ==
  /\ pc[s] = "open"
  /\ chan' = [chan EXCEPT ![s] = "open"]
  /\ port' = s
  /\ LogFn(<<Msg(<<"Serial port opened">>, "in")>>)
  /\ conn' = "Serial"
  /\ stream' = [stream EXCEPT ![s] = "active"]
  /\ reader' = s
  /\ keepReading' = TRUE
  /\ buffer' = [buffer EXCEPT ![s] = <<>>]
  /\ readQ' = [readQ EXCEPT ![s] = Append(@, s)]
  /\ pc' = [pc EXCEPT ![s] = "read"]
  /\ Did("open", "ok")
  /\ UNCHANGED <<hasSerial, xlatVars, inflight, wire, recv, emits, viewVars, cmd>>

InMsgs(out) == [i \in 1..Len(out) |-> Msg(out[i], "in")]

\* reader.read() resolves with a chunk: the loop's body, then the loop test and
\* either the next reader.read() or the normal return
ReadChunk(s, c, cap) ==
  /\ pc[s] = "read"
  /\ NextToResolve(s)
  /\ stream[AwaitedBy(s)] = "active"
  /\ chan[AwaitedBy(s)] = "open"
  /\ Len(recv[s]) + Len(c) <= cap
  /\ LET f == Frame(buffer[s], c)
     IN  /\ buffer' = [buffer EXCEPT ![s] = f.buffer]
         /\ emits' = [emits EXCEPT ![s] = @ \o f.out]
         /\ LogFn(InMsgs(f.out))
  /\ recv' = [recv EXCEPT ![s] = @ \o c]
  /\ IF keepReading
     THEN readQ' = Requeued(s) /\ pc' = pc
     ELSE readQ' = Dequeued(s) /\ pc' = [pc EXCEPT ![s] = "done"]
  /\ Did("read", "chunk")
  /\ UNCHANGED <<hasSerial, xlatVars, port, reader, keepReading, conn, chan, stream,
                 inflight, wire, viewVars, cmd>>

\* A loop that hands its pending tail to the log callback when the stream ends.
ReadDoneFlushes(s) ==
  /\ pc[s] = "read"
  /\ NextToResolve(s)
  /\ stream[AwaitedBy(s)] \in {"active", "ended", "cancelled"}
  /\ stream' = IF stream[AwaitedBy(s)] = "active"
               THEN [stream EXCEPT ![AwaitedBy(s)] = "ended"] ELSE stream
  /\ readQ' = Dequeued(s)
  /\ pc' = [pc EXCEPT ![s] = "done"]
  /\ LET tail == CleanLines(<<buffer[s]>>)
     IN  /\ emits' = [emits EXCEPT ![s] = @ \o tail]
         /\ LogFn(InMsgs(tail))
  /\ Did("read", "done")
  /\ UNCHANGED <<hasSerial, xlatVars, port, reader, keepReading, conn, buffer, chan,
                 inflight, wire, recv, viewVars, cmd>>

\* reader.read() resolves with done (the stream ended, or was cancelled):
\* break, and connectSerial returns
ReadDone(s) ==
  /\ pc[s] = "read"
  /\ NextToResolve(s)
  /\ stream[AwaitedBy(s)] \in {"active", "ended", "cancelled"}
  /\ stream' = IF stream[AwaitedBy(s)] = "active"
               THEN [stream EXCEPT ![AwaitedBy(s)] = "ended"] ELSE stream
  /\ readQ' = Dequeued(s)
  /\ pc' = [pc EXCEPT ![s] = "done"]
  /\ Did("read", "done")
  /\ UNCHANGED <<hasSerial, xlatVars, port, reader, keepReading, conn, buffer, chan,
                 inflight, wire, recv, emits, uiVars, viewVars, cmd>>

\* reader.read() rejects (the stream faulted): the catch block
ReadError(s) ==
  /\ pc[s] = "read"
  /\ NextToResolve(s)
  /\ stream[AwaitedBy(s)] \in {"active", "errored"}
  /\ Catch(s, "ReadError", [stream EXCEPT ![AwaitedBy(s)] = "errored"])
  /\ UNCHANGED <<hasSerial, xlatVars, buffer, inflight, wire, recv, emits, viewVars, cmd>>

\* ---------------------------------------------------------- sendMessage
\* what the user types: nothing, white space, a command, a command and a space
CmdTexts == {<<>>, <<" ">>, <<"p">>, <<"p", " ">>}

\* the command box: onChange={(e) => setCmd(e.target.value)}
TypeCmd(t) ==
  /\ t # cmd
  /\ cmd' = t
  /\ Did("setCmd", "ok")
  /\ UNCHANGED <<hasSerial, xlatVars, svcVars, uiVars, viewVars>>

\* A handleSend that sends whatever the box holds.
SendsAnything(c) == TRUE

\* handleSend's test: if (cmd.trim())
SendGuard(c) == trim(c) # <<>>

\* A payload with no terminator.
PayloadBare(text) == text

\* const msg = text + '\n'
Payload(text) == text \o <<LF>>

\* logFn(`Sent: ${text}`, 'out')
SentMsg(text) == Msg(<<"Sent: ">> \o text, "out")

\* A sendMessage that takes the writer whether or not it is locked.
sendMessageNoLock(text) ==
  IF port # 0
  THEN /\ inflight' = [inflight EXCEPT ![port] = <<text>>]
       /\ Did("sendMessage", "pending")
       /\ UNCHANGED uiVars
  ELSE /\ LogFn(<<Msg(<<"No serial device connected">>, "out")>>)
       /\ Did("sendMessage", "ok")
       /\ UNCHANGED inflight

\* sendMessage(text) up to its await.  With a port: getWriter() throws while
\* an earlier write holds the writer lock (the promise rejects, unhandled);
\* otherwise the write is under way.  With no port: the else branch.
sendMessage(text) ==
  IF port # 0
  THEN IF inflight[port] # <<>>
       THEN /\ Did("sendMessage", "rejected")
            /\ UNCHANGED <<inflight, uiVars>>
       ELSE /\ inflight' = [inflight EXCEPT ![port] = <<text>>]
            /\ Did("sendMessage", "pending")
            /\ UNCHANGED uiVars
  ELSE /\ LogFn(<<Msg(<<"No serial device connected">>, "out")>>)
       /\ Did("sendMessage", "ok")
       /\ UNCHANGED inflight

\* handleSend: the Send button and the Enter key
HandleSend ==
  /\ IF SendGuard(cmd)
     THEN sendMessage(cmd) /\ cmd' = <<>>
     ELSE Did("handleSend", "noop") /\ UNCHANGED <<inflight, uiVars, cmd>>
  /\ UNCHANGED <<hasSerial, xlatVars, port, reader, keepReading, conn, pc, buffer, chan,
                 stream, readQ, wire, recv, emits, viewVars>>

\* writer.write() resolves: the frame is on the wire, whole
WriteResolve(s) ==
  /\ inflight[s] # <<>>
  /\ chan[s] = "open"
  /\ wire' = [wire EXCEPT ![s] = Append(@, Payload(Head(inflight[s])))]
  /\ LogFn(<<SentMsg(Head(inflight[s]))>>)
  /\ inflight' = [inflight EXCEPT ![s] = <<>>]
  /\ Did("write", "ok")
  /\ UNCHANGED <<hasSerial, xlatVars, port, reader, keepReading, conn, pc, buffer, chan,
                 stream, readQ, recv, emits, viewVars, cmd>>

\* A write fault that tears the session down.
WriteRejectCloses(s) ==
  /\ inflight[s] # <<>>
  /\ LogFn(<<Msg(<<"Serial write error: ", "WriteError">>, "in"), DisconnectedMsg>>)
  /\ inflight' = [inflight EXCEPT ![s] = <<>>]
  /\ \E f \in TeardownFaults : disconnect(f, stream)
  /\ Did("write", "failed")
  /\ UNCHANGED <<hasSerial, xlatVars, pc, buffer, readQ, wire, recv, emits, viewVars, cmd>>

\* writer.write() rejects
WriteReject(s) ==
  /\ inflight[s] # <<>>
  /\ LogFn(<<Msg(<<"Serial write error: ", "WriteError">>, "in")>>)
  /\ inflight' = [inflight EXCEPT ![s] = <<>>]
  /\ Did("write", "failed")
  /\ UNCHANGED <<hasSerial, xlatVars, port, reader, keepReading, conn, pc, buffer, chan,
                 stream, readQ, wire, recv, emits, viewVars, cmd>>

\* ------------------------------------------------------------ log views
\* loadHistory, then the effect on [logs]: the history date's entries in the
\* history view, today's otherwise, become the displayed list and are saved
LoadHistory(view, date) ==
  LET data == IF view THEN loadLogsForDate(journal, date)
              ELSE loadLogsForDate(journal, today)
      st == SaveEach([journal |-> journal, calls |-> calls], data)
  IN  /\ Len(data) <= MaxLogs
      /\ JournalSize(st.journal) <= MaxJournal
      /\ logs' = data
      /\ journal' = st.journal
      /\ calls' = st.calls

\* the View History checkbox
SetIsHistoryView ==
  /\ isHistoryView' = ~isHistoryView
  /\ LoadHistory(~isHistoryView, historyDate)
  /\ Did("setIsHistoryView", "ok")
  /\ UNCHANGED <<hasSerial, xlatVars, svcVars, historyDate, today, cmd>>

\* the date picker, disabled outside the history view
SetHistoryDate(d) ==
  /\ isHistoryView
  /\ d # historyDate
  /\ historyDate' = d
  /\ LoadHistory(TRUE, d)
  /\ Did("setHistoryDate", "ok")
  /\ UNCHANGED <<hasSerial, xlatVars, svcVars, isHistoryView, today, cmd>>

\* midnight (UTC) passes
Tick ==
  /\ today < MaxDay
  /\ today' = today + 1
  /\ Did("tick", "ok")
  /\ UNCHANGED <<hasSerial, xlatVars, svcVars, uiVars, isHistoryView, historyDate, cmd>>

JournalTexts == {<<"x">>}

\* saveLog(log), called with a LogEntry as services.ts declares it
SaveLog(log) ==
  /\ JournalSize(journal) < MaxJournal
  /\ LET st == saveLog([journal |-> journal, calls |-> calls], log)
     IN  journal' = st.journal /\ calls' = st.calls
  /\ Did("saveLog", "ok")
  /\ UNCHANGED <<hasSerial, xlatVars, svcVars, logs, viewVars, cmd>>

\* loadLogsForDate(date) and loadLogsForToday() called on their own: they read
\* the day's key with getItem and write nothing
LoadLogsForDate(d) ==
  /\ last # [op |-> "loadLogsForDate", res |-> "ok"]
  /\ Did("loadLogsForDate", "ok")
  /\ UNCHANGED <<hasSerial, xlatVars, svcVars, uiVars, viewVars, cmd>>

\* ---------------------------------------------------------- translation
\* the texts to translate, the target languages, and what the service answers
XlatTexts == {<<"h">>}
XlatLangs == {<<"en">>, <<"fr">>}
Responses == {<<"b">>, <<"b", " ">>, <<"s">>}

\* const cacheKey = `en:${targetLang}:${text}`
cacheKey(text, targetLang) == <<"en:">> \o targetLang \o <<":">> \o text

\* Map.prototype.set: the key's value is replaced, or the key is added
MapSet(m, k, v) == [x \in DOMAIN m \cup {k} |-> IF x = k THEN v ELSE m[x]]

RemoveAt(q, i) == SubSeq(q, 1, i - 1) \o SubSeq(q, i + 1, Len(q))

\* a call that returned `result`; external says whether it called the service,
\* seen how many calls had returned when it was made
Returned(call, result, external) ==
  [text |-> call.text, lang |-> call.lang, result |-> result,
   external |-> external, seen |-> call.seen]

\* translateText(text, targetLang) up to its await: English is returned as it
\* is, a cached translation is returned from the Map, a missing API key throws,
\* and otherwise generateContent is called
translateText(text, targetLang) ==
  LET call == [text |-> text, lang |-> targetLang, seen |-> Len(returned)]
      key == cacheKey(text, targetLang)
  IN  /\ xlatCalls < MaxXlat
      /\ xlatCalls' = xlatCalls + 1
      /\ IF targetLang = <<"en">>
         THEN /\ returned' = Append(returned, Returned(call, text, FALSE))
              /\ Did("translateText", "ok")
              /\ UNCHANGED <<translationCache, apiKey, translating>>
         ELSE IF key \in DOMAIN translationCache
         THEN /\ returned' = Append(returned, Returned(call, translationCache[key], FALSE))
              /\ Did("translateText", "ok")
              /\ UNCHANGED <<translationCache, apiKey, translating>>
         ELSE \E k \in (IF apiKey = "unread" THEN {"set", "unset"} ELSE {apiKey}) :
                /\ apiKey' = k
                /\ IF k = "unset"
                   THEN /\ Did("translateText", "thrown")
                        /\ UNCHANGED <<translationCache, translating, returned>>
                   ELSE /\ translating' = Append(translating, call)
                        /\ Did("translateText", "pending")
                        /\ UNCHANGED <<translationCache, returned>>
      /\ UNCHANGED <<hasSerial, svcVars, uiVars, viewVars, cmd>>

\* generateContent resolves for the i-th waiting call: the response text is
\* trimmed, stored under the call's key and returned
GenerateResolve(i, response) ==
  /\ i \in 1..Len(translating)
  /\ LET call == translating[i]
         translation == trim(response)
     IN  /\ translationCache' = MapSet(translationCache,
                                       cacheKey(call.text, call.lang), translation)
         /\ returned' = Append(returned, Returned(call, translation, TRUE))
  /\ translating' = RemoveAt(translating, i)
  /\ Did("translateText", "ok")
  /\ UNCHANGED <<hasSerial, svcVars, uiVars, viewVars, cmd, apiKey, xlatCalls>>

\* generateContent rejects for the i-th waiting call: 'Failed to translate text.'
GenerateReject(i) ==
  /\ i \in 1..Len(translating)
  /\ translating' = RemoveAt(translating, i)
  /\ Did("translateText", "failed")
  /\ UNCHANGED <<hasSerial, svcVars, uiVars, viewVars, cmd, translationCache,
                 apiKey, returned, xlatCalls>>

\* ------------------------------------------------------- specifications
SpecChunks == {<<"a", LF>>, <<"a", LF, "a">>}
FramerChunks == SeqsUpTo(Chars, MaxChunk) \ {<<>>}

\* The device session: connect requests up to MaxConn, disconnects, and what
\* the device and the host answer.
Next ==
  \/ \E s \in Sessions : HandleConnect(s)
  \/ \E s \in Sessions : RequestPortResolve(s)
  \/ \E s \in Sessions : RequestPortReject(s)
  \/ \E s \in Sessions : OpenResolve(s)
  \/ \E s \in Sessions : OpenReject(s)
  \/ \E s \in Sessions : \E c \in SpecChunks : ReadChunk(s, c, MaxRecv)
  \/ \E s \in Sessions : ReadDone(s)
  \/ \E s \in Sessions : ReadError(s)
  \/ DisconnectClick

Spec == Init /\ [][Next]_vars

\* the Disconnect button as CenterPanel renders it: only while connected
ConnectedDisconnectClick == conn # "Disconnected" /\ DisconnectClick

\* One session and the command box: sends in every connection state.
NextSend ==
  \/ HandleConnect(1)
  \/ RequestPortResolve(1)
  \/ OpenResolve(1)
  \/ OpenReject(1)
  \/ ConnectedDisconnectClick
  \/ \E t \in CmdTexts : TypeCmd(t)
  \/ HandleSend
  \/ WriteResolve(1)
  \/ WriteReject(1)

SpecSend == Init /\ [][NextSend]_vars

\* One session fed every cut of every short text.
NextFramer ==
  \/ HandleConnect(1)
  \/ RequestPortResolve(1)
  \/ OpenResolve(1)
  \/ \E c \in FramerChunks : ReadChunk(1, c, MaxText)
  \/ ReadDone(1)
  \/ ConnectedDisconnectClick

SpecFramer == Init /\ [][NextFramer]_vars

\* A read that is pending on a cancelled stream resolves with done: the stream
\* settles its pending reads when it is cancelled, and the loop's continuation
\* is scheduled like every other promise reaction.
CancelledReadResolves(s) == ReadDone(s) /\ stream[s] = "cancelled"

SpecFramerFair == SpecFramer /\ WF_vars(CancelledReadResolves(1))

\* The journal and the log views.
NextJournal ==
  \/ \E t \in JournalTexts, dir \in {"in", "out"}, d \in Days :
       SaveLog(Entry(t, dir, DateAt(d)))
  \/ SetIsHistoryView
  \/ \E d \in Days : SetHistoryDate(d)
  \/ \E d \in Days : LoadLogsForDate(d)
  \/ Tick

SpecJournal == Init /\ [][NextJournal]_vars

\* The translation service and its cache.
NextTranslate ==
  \/ \E t \in XlatTexts, l \in XlatLangs : translateText(t, l)
  \/ \E i \in 1..MaxXlat, r \in Responses : GenerateResolve(i, r)
  \/ \E i \in 1..MaxXlat : GenerateReject(i)

SpecTranslate == Init /\ [][NextTranslate]_vars

\* ------------------------------------------------------------ sanity
TypeOK ==
  /\ port \in 0..MaxConn /\ reader \in 0..MaxConn
  /\ keepReading \in BOOLEAN
  /\ conn \in {"Disconnected", "Serial"}
  /\ \A s \in Sessions :
       /\ pc[s] \in {"idle", "requestPort", "open", "read", "done", "failed"}
       /\ chan[s] \in {"closed", "open"}
       /\ stream[s] \in {"none", "active", "cancelled", "ended", "errored"}
       /\ Len(inflight[s]) <= 1
       /\ (pc[s] = "read") = (AwaitedBy(s) # 0)
  /\ keepReading => reader # 0
  /\ port = reader

\* ------------------------------------------------------------ claims
Range(q) == {q[i] : i \in 1..Len(q)}

\* The lines of a text, read one character at a time: a line ends at each
\* "\n", one "\r" right before it belongs to the terminator, and what follows
\* the last "\n" is no line.
RECURSIVE Scan(_, _, _)
Scan(t, cur, acc) ==
  IF t = <<>> THEN acc
  ELSE IF Head(t) = LF
       THEN Scan(Tail(t), <<>>,
                 Append(acc, IF cur # <<>> /\ Last(cur) = CR THEN Front(cur) ELSE cur))
       ELSE Scan(Tail(t), Append(cur, Head(t)), acc)

TerminatedLines(t) == Scan(t, <<>>, <<>>)

NonEmpty(q) == SelectSeq(q, LAMBDA l : l # <<>>)

Trimmed(q) == [i \in 1..Len(q) |-> trim(q[i])]

\* C1 as stated: in every state, the set of messages a read loop has emitted is
\* the set of the terminated lines of the text delivered to it that are not
\* blank.
C1_RawLines ==
  \A s \in Sessions :
    Range(emits[s])
      = Range(SelectSeq(TerminatedLines(recv[s]), LAMBDA l : trim(l) # <<>>))

\* C1 as amended: in every state, and for every way the delivered text was cut
\* into chunks, the set of messages a read loop has emitted is the set of the
\* terminated lines of that text, each stripped of leading and trailing white
\* space, that are not empty once stripped.
C1_Framing ==
  \A s \in Sessions :
    Range(emits[s]) = Range(NonEmpty(Trimmed(TerminatedLines(recv[s]))))

\* a line ending "\r\n", with white space before its text, was delivered and
\* emitted
C1_Witness ==
  /\ recv[1] = <<" ", "a", CR, LF>>
  /\ emits[1] = << <<"a">> >>

\* the texts the log callback received from the read loop, oldest first
LoggedLines ==
  LET ls == SelectSeq(logs, LAMBDA e : e.direction = "in" /\ Range(e.text) \subseteq Chars)
  IN  [i \in 1..Len(ls) |-> ls[i].text]

\* C2: the messages handed to the log callback are, in order, the terminated
\* lines of the text received so far (so none is emitted before the chunk with
\* its terminator arrived), and this stays so once the loop has ended, on end
\* of stream or after disconnect(): the pending tail is never emitted.
C2_OrderAndTail ==
  /\ LoggedLines = NonEmpty(Trimmed(TerminatedLines(recv[1])))
  /\ emits[1] = LoggedLines
  /\ pc[1] = "done" => ~HasLF(buffer[1])

\* after a disconnect the loop has ended with two messages emitted, in the
\* order their lines arrived, and a tail pending
C2_Witness ==
  /\ pc[1] = "done"
  /\ conn = "Disconnected"
  /\ recv[1] = <<"a", LF, "a", LF, "a">>
  /\ emits[1] = << <<"a">>, <<"a">> >>
  /\ buffer[1] = <<"a">>

JournalAll ==
  LET RECURSIVE Cat(_)
      Cat(d) == IF d = 0 THEN <<>> ELSE Cat(d - 1) \o journal[d]
  IN  Cat(MaxDay)

Count(q, x) == Cardinality({i \in 1..Len(q) : q[i] = x})

StoredMsgs == [i \in 1..Len(JournalAll) |->
                 Msg(JournalAll[i].text, JournalAll[i].direction)]

RECURSIVE Flat(_, _)
Flat(f, n) == IF n = 0 THEN <<>> ELSE Flat(f, n - 1) \o f[n]

AllEmits == Flat(emits, MaxConn)
AllWrites == Flat(wire, MaxConn)

\* C3 as stated: the journal holds each inbound decoded line, and each text
\* successfully sent, exactly as often as it was received or sent.
C3_ExactlyOnce ==
  /\ \A l \in Range(AllEmits) :
       Count(StoredMsgs, Msg(l, "in")) = Count(AllEmits, l)
  /\ \A w \in Range(AllWrites) :
       Count(StoredMsgs, SentMsg(Front(w))) = Count(AllWrites, w)

\* C4 as stated: every entry of the displayed list is in the journal.
C4_JournalNotBehind ==
  \A i \in 1..Len(logs) :
    Msg(logs[i].text, logs[i].direction) \in Range(StoredMsgs)

Plain(q) == [i \in 1..Len(q) |->
               [text |-> q[i].text, direction |-> q[i].direction,
                day |-> q[i].timestamp.day]]

C6_BlankSendNoOp ==
  [][(HandleSend /\ trim(cmd) = <<>>)
       => UNCHANGED <<svcVars, uiVars, viewVars, cmd>>]_vars

\* a white-space-only command was sent on a connected session
C6_Witness ==
  /\ last = [op |-> "handleSend", res |-> "noop"]
  /\ cmd = <<" ">>
  /\ port # 0

\* C7 as stated: a write that succeeds adds one 'out' entry whose text is the
\* text sent, and puts that text and one newline on the wire.
C7_SentTextItself ==
  [][\A s \in Sessions :
       WriteResolve(s) =>
         /\ logs' = Append(logs, Entry(Head(inflight[s]), "out", IsoAt(today)))
         /\ wire' = [wire EXCEPT ![s] = Append(@, Head(inflight[s]) \o <<LF>>)]]_vars

\* C7 as amended: a send of a non-blank text on a connected session starts one
\* write and adds no entry; when the write succeeds it adds exactly one entry,
\* direction 'out', text "Sent: " followed by the text, and puts exactly one
\* payload on the wire, the text followed by one newline.
C7_SentOnce ==
  [][/\ (HandleSend /\ trim(cmd) # <<>> /\ port # 0 /\ inflight[port] = <<>>)
          => /\ inflight' = [inflight EXCEPT ![port] = <<cmd>>]
             /\ UNCHANGED <<logs, wire>>
     /\ \A s \in Sessions :
          WriteResolve(s) =>
            /\ logs' = Append(logs, Entry(<<"Sent: ">> \o Head(inflight[s]),
                                          "out", IsoAt(today)))
            /\ wire' = [wire EXCEPT ![s] = Append(@, Head(inflight[s]) \o <<LF>>)]
            /\ inflight'[s] = <<>>]_vars

\* "p" was sent and its write succeeded
C7_Witness ==
  /\ last = [op |-> "write", res |-> "ok"]
  /\ wire[1] = << <<"p", LF>> >>
  /\ logs # <<>> /\ Last(logs).direction = "out"

Busy(s) == pc[s] \in {"requestPort", "open", "read"}

\* C8 as stated: a connect request made while another is connecting or
\* connected is rejected, and at no time is more than one channel open or more
\* than one read loop running.
C8_SecondConnectRejected ==
  [][/\ \A s \in Sessions :
          (HandleConnect(s) /\ \E o \in Sessions : Busy(o)) => pc'[s] = "failed"
     /\ Cardinality({s \in Sessions : chan'[s] = "open"}) <= 1
     /\ Cardinality({s \in Sessions : pc'[s] = "read"}) <= 1]_vars

\* C9 as stated: a disconnect() right after a disconnect() leaves the state
\* Disconnected and adds no entry to the log or the journal.
C9_DisconnectIdempotent ==
  [][(DisconnectClick /\ last.op = "disconnect")
       => /\ conn' = "Disconnected"
          /\ UNCHANGED <<logs, journal>>]_vars

\* the steps in which disconnect() runs
DisconnectRuns ==
  \/ DisconnectClick
  \/ \E s \in Sessions : RequestPortReject(s) \/ OpenReject(s) \/ ReadError(s)

\* C10: whenever disconnect() runs, whether or not reader.cancel() or
\* port.close() faults, it ends with the state Disconnected, port and reader
\* null and the read-loop flag false, and the Disconnect button's call returns
\* normally.
C10_AlwaysDisconnected ==
  [][DisconnectRuns
       => /\ conn' = "Disconnected"
          /\ port' = 0 /\ reader' = 0 /\ keepReading' = FALSE
          /\ DisconnectClick => last'.res = "ok"]_vars

\* disconnect() has run on a connected session and port.close() faulted: the
\* channel is still open
C10_Witness ==
  /\ last = [op |-> "disconnect", res |-> "ok"]
  /\ conn = "Disconnected" /\ port = 0 /\ reader = 0 /\ ~keepReading
  /\ \E s \in Sessions : chan[s] = "open"

OutEntries(q) == SelectSeq(q, LAMBDA e : e.direction = "out")

\* C11 as stated: a send of a non-blank text while the module holds no port
\* starts no write, puts nothing on the wire, adds no 'out' entry to the
\* displayed log, and leaves the state Disconnected.
C11_NotConnectedNoOut ==
  [][(HandleSend /\ SendGuard(cmd) /\ port = 0)
       => /\ UNCHANGED <<inflight, wire>>
          /\ OutEntries(logs') = OutEntries(logs)
          /\ conn' = "Disconnected"]_vars

\* a write was started and then rejected
WriteFailedBefore ==
  \E i \in 1..Len(logs) :
    logs[i] = Entry(<<"Serial write error: ", "WriteError">>, "in", logs[i].timestamp)

\* C12: a write that rejects adds exactly one entry, an inbound diagnostic, and
\* releases the writer lock; port, reader, read-loop flag, connection state,
\* channel, read loop and wire are as before; and a send of a non-blank text made
\* right after it on a connected session starts a write on the same port.
C12_WriteFaultKeepsChannel ==
  [][/\ \A s \in Sessions :
          WriteReject(s) =>
            /\ logs' = Append(logs, Entry(<<"Serial write error: ", "WriteError">>,
                                          "in", IsoAt(today)))
            /\ inflight'[s] = <<>>
            /\ UNCHANGED <<port, reader, keepReading, conn, chan, stream, pc,
                           readQ, wire>>
     /\ (HandleSend /\ SendGuard(cmd) /\ last = [op |-> "write", res |-> "failed"]
           /\ port # 0)
          => /\ inflight' = [inflight EXCEPT ![port] = <<cmd>>]
             /\ port' = port]_vars

\* on a connected session a write failed, the next one was sent on the same
\* port and succeeded
C12_Witness ==
  /\ WriteFailedBefore
  /\ conn = "Serial" /\ port = 1 /\ chan[1] = "open"
  /\ last = [op |-> "write", res |-> "ok"]
  /\ wire[1] = << <<"p", LF>> >>

\* C13 as stated: when a read loop stops because its read faulted or its stream
\* ended, the state becomes Disconnected and a diagnostic is added to the log;
\* and no step leaves the state Connected with no read loop running.
C13_LoopStopSurfaced ==
  [][/\ \A s \in Sessions :
          (ReadError(s) \/ (ReadDone(s) /\ stream[AwaitedBy(s)] # "cancelled"))
            => /\ conn' = "Disconnected"
               /\ Len(logs') > Len(logs)
     /\ conn' = "Serial" => \E s \in Sessions : pc'[s] = "read"]_vars

Frames == {Payload(t) : t \in {c \in CmdTexts : SendGuard(c)}}

\* C16: a port has at most one write in flight; a send is accepted (its write
\* started) only when the port has none in flight, and a send made while one is
\* in flight starts no write and touches neither the wire nor the log; every
\* write that completes puts on the wire the whole frame of the send that was
\* accepted, after the frames before it.
C16_WritesSerialized ==
  /\ [](\A s \in Sessions :
          /\ Len(inflight[s]) <= 1
          /\ \A i \in 1..Len(wire[s]) : wire[s][i] \in Frames)
  /\ [][/\ (HandleSend /\ inflight' # inflight)
             => /\ port # 0 /\ inflight[port] = <<>>
                /\ inflight' = [inflight EXCEPT ![port] = <<cmd>>]
        /\ (HandleSend /\ SendGuard(cmd) /\ port # 0 /\ inflight[port] # <<>>)
             => UNCHANGED <<inflight, wire, logs>>
        /\ \A s \in Sessions :
             wire'[s] # wire[s]
               => /\ inflight[s] # <<>>
                  /\ wire'[s] = Append(wire[s], Head(inflight[s]) \o <<LF>>)
                  /\ inflight'[s] = <<>>]_vars

\* one frame is on the wire, the next send's write is in flight, and a third
\* send was made and refused
C16_Witness ==
  /\ wire[1] = << <<"p", LF>> >>
  /\ inflight[1] = <<<<"p", " ">>>>
  /\ last = [op |-> "sendMessage", res |-> "rejected"]

\* the entries a step added to the displayed log
Added == SubSeq(logs', Len(logs) + 1, Len(logs'))

IsPrefix(a, b) == Len(a) <= Len(b) /\ SubSeq(b, 1, Len(a)) = a

\* C18: in every step each day's stored sequence before the step is a prefix of
\* the one after it; a saveLog call adds its entry at the end of its day's
\* sequence and changes no other day; loadLogsForDate and loadLogsForToday
\* change no day's sequence; and what a reload of the log view adds is what the
\* save effect stores of the list now displayed.
C18_AppendOnly ==
  [][/\ \A d \in Days : IsPrefix(journal[d], journal'[d])
     /\ \A t \in JournalTexts, dir \in {"in", "out"}, d \in Days :
          SaveLog(Entry(t, dir, DateAt(d)))
            => /\ journal'[d] = Append(journal[d], Entry(t, dir, IsoAt(d)))
               /\ \A o \in Days \ {d} : journal'[o] = journal[o]
     /\ (\E d \in Days : LoadLogsForDate(d)) => journal' = journal
     /\ (SetIsHistoryView \/ \E d \in Days : SetHistoryDate(d))
          => journal' = SaveEach([journal |-> journal, calls |-> calls], logs').journal
    ]_vars

\* entries were saved on both days, the second one after another was stored on
\* day 1, and a day was loaded
C18_Witness ==
  /\ Len(journal[1]) = 2
  /\ Len(journal[2]) = 1
  /\ journal[1][1].direction # journal[1][2].direction
  /\ last = [op |-> "loadLogsForDate", res |-> "ok"]

\* C20: in every state the connection type last reported is Disconnected
\* exactly when the module's port is null, and then the reader is null and the
\* read-loop flag is false.
C20_ConnMatchesPort ==
  /\ (conn = "Disconnected") <=> (port = 0)
  /\ conn = "Disconnected" => (reader = 0 /\ ~keepReading)

\* a second request's failure tore the first session down while its read was
\* pending
C20_Witness ==
  /\ pc = <<"read", "failed">>
  /\ conn = "Disconnected"
  /\ port = 0
  /\ stream[1] = "cancelled"

SameCall(a, b) == a.text = b.text /\ a.lang = b.lang

\* C19 as stated: of two calls for the same text and language, the second made
\* after the first had returned, the second returns the string the first
\* returned and calls the service no more.
C19_CacheStable ==
  \A i, j \in 1..Len(returned) :
    (i < j /\ SameCall(returned[i], returned[j]) /\ returned[j].seen >= i)
      => /\ returned[j].result = returned[i].result
         /\ ~returned[j].external

\* C21 as stated: when a connect request's open() resolves right after a
\* disconnect() that ran while the request was pending, the state stays
\* Disconnected, no port is held and no read loop is started for the request.
C21_StaleConnectIgnored ==
  [][\A s \in Sessions :
       (OpenResolve(s) /\ last.op = "disconnect")
         => /\ conn' = "Disconnected"
            /\ port' = 0
            /\ ~keepReading'
            /\ pc'[s] # "read"]_vars

====
